---- MODULE Spec2Model ----
(***************************************************************************)
(* Song Lyrics Manager (src/main.py): a FastAPI application whose request  *)
(* handlers read and write one SQLite table, songs.  Handlers are plain    *)
(* `def` functions, which FastAPI runs on a thread pool, so requests       *)
(* interleave; every handler opens a connection of its own (get_db) and    *)
(* each SQL statement (with the commit that follows a write) is one atomic *)
(* step against the shared table.                                          *)
(*                                                                         *)
(* Not modelled: SQLITE_BUSY lock time-outs, ids beyond 2^63-1, request    *)
(* body validation by the framework, logging.                              *)
(***************************************************************************)
EXTENDS Integers, Sequences, FiniteSets, TLC

\* ---------------------------------------------------------------- bounds
NumReqs == 2        \* requests in flight at once (thread-pool workers used)
MaxId   == 2        \* rows ever inserted (cap on AUTOINCREMENT ids)
MaxTime == 1        \* CURRENT_TIMESTAMP runs over 0..MaxTime (1 s resolution)

Req   == 1..NumReqs
Ids   == 1..MaxId
Times == 0..MaxTime

\* Titles are byte strings compared by SQLite's BINARY collation; a title is
\* the sequence of its bytes: "A", "Aa", "a".
Titles == { <<65>>, <<65, 97>>, <<97>> }
\* Lyrics a request body may carry; a stored row holds one of these or "".
Lyrics == { "la la" }

\* Optional[T]: None or one value.
None == << >>
Some(x) == << x >>
Opt(S) == { None } \cup { Some(x) : x \in S }

VARIABLES
    songs,      \* the songs table: a set of rows
    seq,        \* sqlite_sequence entry of songs (largest rowid ever used)
    now,        \* CURRENT_TIMESTAMP
    pc,         \* pc[r]: where request r is in its handler
    args,       \* args[r]: path parameter and parsed body of request r
    local,      \* local[r]: song_id (lastrowid) of create_song
    conn,       \* conn[r]: connections request r holds open
    opened,     \* opened[r]: connections request r opened so far
    resp        \* resp[r]: the response, << >> while pending

vars == << songs, seq, now, pc, args, local, conn, opened, resp >>

\* ------------------------------------------------------- the songs table

\* A row of songs, as sqlite3.Row / dict(row) / the Song response model.
Song(id, title, lyrics, created_at, updated_at) ==
    [ id |-> id, title |-> title, lyrics |-> lyrics,
      created_at |-> created_at, updated_at |-> updated_at ]

Max(a, b) == IF a >= b THEN a ELSE b
Min(a, b) == IF a <= b THEN a ELSE b

\* BINARY collation: memcmp over the common prefix, then the shorter first.
TitleLess(a, b) ==
    \E k \in 1..(Min(Len(a), Len(b)) + 1) :
        /\ \A i \in 1..(k - 1) : a[i] = b[i]
        /\ \/ k <= Len(a) /\ k <= Len(b) /\ a[k] < b[k]
           \/ k = Len(a) + 1 /\ k <= Len(b)

\* title TEXT NOT NULL, without UNIQUE.
UniqueDropped(tbl, id, title) == FALSE

\* title TEXT NOT NULL UNIQUE: a row other than `id` already holds `title`.
UniqueViolation(tbl, id, title) ==
    \E row \in tbl : row.id # id /\ row.title = title

MaxRowid(tbl) == IF tbl = {} THEN 0
                 ELSE CHOOSE m \in { row.id : row \in tbl } :
                          \A row \in tbl : row.id <= m

\* INTEGER PRIMARY KEY without AUTOINCREMENT: one more than the largest
\* rowid now in the table.
NewRowidReuse(tbl, s) == MaxRowid(tbl) + 1

\* id INTEGER PRIMARY KEY AUTOINCREMENT: one more than the largest rowid the
\* table ever held.
NewRowid(tbl, s) == Max(s, MaxRowid(tbl)) + 1

\* SELECT * FROM songs WHERE id = ? ; fetchone(): no row (None) or one row.
SelectById(tbl, id) ==
    IF \E row \in tbl : row.id = id
    THEN Some(CHOOSE row \in tbl : row.id = id)
    ELSE None

\* SELECT * FROM songs ; fetchall(): rows in rowid order.
RECURSIVE OrderById(_)
OrderById(tbl) ==
    IF tbl = {} THEN << >>
    ELSE LET first == CHOOSE row \in tbl : \A other \in tbl : row.id <= other.id
         IN  << first >> \o OrderById(tbl \ { first })

\* SELECT * FROM songs ORDER BY title ; fetchall().
RECURSIVE OrderByTitle(_)
OrderByTitle(tbl) ==
    IF tbl = {} THEN << >>
    ELSE LET first == CHOOSE row \in tbl :
                          \A other \in tbl : ~ TitleLess(other.title, row.title)
         IN  << first >> \o OrderByTitle(tbl \ { first })

\* INSERT OR REPLACE: the row that holds the title gives way to the new one.
InsertOrReplace(tbl, s, title, lyrics, ts) ==
    LET id == NewRowid(tbl, s)
    IN  [ ok |-> TRUE,
          songs |-> { row \in tbl : row.title # title }
                        \cup { Song(id, title, lyrics, ts, ts) },
          seq |-> id, lastrowid |-> id ]

\* INSERT INTO songs (title, lyrics) VALUES (?, ?) ; commit.  created_at and
\* updated_at take their DEFAULT CURRENT_TIMESTAMP.  A UNIQUE violation
\* aborts the statement (IntegrityError) and nothing is written.
InsertSong(tbl, s, title, lyrics, ts) ==
    IF UniqueViolation(tbl, 0, title)
    THEN [ ok |-> FALSE, songs |-> tbl, seq |-> s, lastrowid |-> 0 ]
    ELSE LET id == NewRowid(tbl, s)
         IN  [ ok |-> TRUE,
               songs |-> tbl \cup { Song(id, title, lyrics, ts, ts) },
               seq |-> id, lastrowid |-> id ]

\* update_fields with "updated_at = CURRENT_TIMESTAMP" appended always.
UpdateFieldsAlwaysStamp(title, lyrics) ==
    (IF title # None THEN << "title" >> ELSE << >>)
        \o (IF lyrics # None THEN << "lyrics" >> ELSE << >>)
        \o << "updated_at" >>

\* update_fields of update_song: the SET clauses, in the order appended.
UpdateFields(title, lyrics) ==
    LET fields == (IF title # None THEN << "title" >> ELSE << >>)
                  \o (IF lyrics # None THEN << "lyrics" >> ELSE << >>)
    IN  IF fields # << >> THEN fields \o << "updated_at" >> ELSE fields

HasField(fields, f) == \E i \in 1..Len(fields) : fields[i] = f

\* Two statements, lyrics first and then the title, each with its commit: a
\* title that violates UNIQUE leaves the new lyrics behind.
UpdateSongTwoStatements(tbl, id, fields, title, lyrics, ts) ==
    LET SetLyrics(row) ==
            [ row EXCEPT
                !.lyrics = IF HasField(fields, "lyrics") THEN lyrics[1] ELSE @,
                !.updated_at = IF HasField(fields, "lyrics") THEN ts ELSE @ ]
        SetTitle(row) ==
            [ row EXCEPT
                !.title = IF HasField(fields, "title") THEN title[1] ELSE @,
                !.updated_at = IF HasField(fields, "updated_at") THEN ts ELSE @ ]
        hit == { row \in tbl : row.id = id }
        mid == (tbl \ hit) \cup { SetLyrics(row) : row \in hit }
    IN  IF /\ hit # {}
           /\ HasField(fields, "title")
           /\ UniqueViolation(tbl, id, title[1])
        THEN [ ok |-> FALSE, songs |-> mid ]
        ELSE [ ok |-> TRUE,
               songs |-> (tbl \ hit) \cup { SetTitle(SetLyrics(row)) : row \in hit } ]

\* UPDATE that also rewrites created_at (the column list of an upsert).
UpdateSongRestamp(tbl, id, fields, title, lyrics, ts) ==
    LET Set(row) ==
            [ row EXCEPT
                !.title = IF HasField(fields, "title") THEN title[1] ELSE @,
                !.lyrics = IF HasField(fields, "lyrics") THEN lyrics[1] ELSE @,
                !.created_at = ts,
                !.updated_at = IF HasField(fields, "updated_at") THEN ts ELSE @ ]
        hit == { row \in tbl : row.id = id }
    IN  IF /\ hit # {}
           /\ HasField(fields, "title")
           /\ UniqueViolation(tbl, id, title[1])
        THEN [ ok |-> FALSE, songs |-> tbl ]
        ELSE [ ok |-> TRUE,
               songs |-> (tbl \ hit) \cup { Set(row) : row \in hit } ]

\* UPDATE songs SET <fields> WHERE id = ? ; commit.  Changes the rows that
\* match (none or one); a UNIQUE violation aborts the whole statement.
UpdateSong(tbl, id, fields, title, lyrics, ts) ==
    LET Set(row) ==
            [ row EXCEPT
                !.title = IF HasField(fields, "title") THEN title[1] ELSE @,
                !.lyrics = IF HasField(fields, "lyrics") THEN lyrics[1] ELSE @,
                !.updated_at = IF HasField(fields, "updated_at") THEN ts ELSE @ ]
        hit == { row \in tbl : row.id = id }
    IN  IF /\ hit # {}
           /\ HasField(fields, "title")
           /\ UniqueViolation(tbl, id, title[1])
        THEN [ ok |-> FALSE, songs |-> tbl ]
        ELSE [ ok |-> TRUE,
               songs |-> (tbl \ hit) \cup { Set(row) : row \in hit } ]

\* DELETE FROM songs WHERE id = ? ; commit.
DeleteSong(tbl, id) == { row \in tbl : row.id # id }

\* --------------------------------------------------- requests, responses

\* SongCreate: title required, lyrics defaults to "".
SongCreate(title, lyrics) ==
    [ title |-> title[1],
      lyrics |-> IF lyrics = None THEN "" ELSE lyrics[1] ]

NoArgs == [ op |-> "none", song_id |-> 0, title |-> None, lyrics |-> None ]

Pending == << >>
\* A response: HTTP status, what the body is, and the rows it carries.
Response(status, kind, body) ==
    << [ status |-> status, kind |-> kind, body |-> body ] >>

\* HTTPException(status_code=..., detail=...)
HTTPException(status) == Response(status, "detail", << >>)

\* dict(row) on the result of fetchone(): dict(None) raises TypeError, which
\* no handler catches; the framework answers 500.
DictResponse(fetched) ==
    IF fetched = None THEN Response(500, "unhandled", << >>)
    ELSE Response(200, "song", fetched)

\* The page share_song renders: title, lyrics or a placeholder, created_at,
\* and updated_at only when it differs from created_at.
SharePage(row) ==
    [ title |-> row.title,
      lyrics |-> IF row.lyrics # "" THEN row.lyrics
                 ELSE "No lyrics available for this song.",
      created |-> row.created_at,
      updated |-> IF row.updated_at # row.created_at
                  THEN Some(row.updated_at) ELSE None ]

\* ------------------------------------------------------------------ Init

\* startup_event -> init_db: CREATE TABLE IF NOT EXISTS on a new database.
Init ==
    /\ songs = {}
    /\ seq = 0
    /\ now = 0
    /\ pc = [ r \in Req |-> "idle" ]
    /\ args = [ r \in Req |-> NoArgs ]
    /\ local = [ r \in Req |-> 0 ]
    /\ conn = [ r \in Req |-> 0 ]
    /\ opened = [ r \in Req |-> 0 ]
    /\ resp = [ r \in Req |-> Pending ]

\* get_db(): a new connection for request r.
GetDb(r) ==
    /\ conn' = [ conn EXCEPT ![r] = @ + 1 ]
    /\ opened' = [ opened EXCEPT ![r] = @ + 1 ]

\* conn.close()
Close(r) == conn' = [ conn EXCEPT ![r] = @ - 1 ]

\* Sending a finished handler's response is the worker's own business and
\* touches nothing shared: it is taken before any other step (see Reply).
NoReplyDue == \A q \in Req : pc[q] # "done"

\* Request r is about to execute the statement at `label`.
At(r, label) == pc[r] = label /\ NoReplyDue

\* A request arrives: the handler is entered and opens its connection.
Begin(r, a, first) ==
    /\ At(r, "idle")
    /\ args' = [ args EXCEPT ![r] = a ]
    /\ pc' = [ pc EXCEPT ![r] = first ]
    /\ GetDb(r)
    /\ UNCHANGED << songs, seq, now, local, resp >>

\* conn.close() only on the way to a normal return; an HTTPException leaves
\* the connection open.
FinishLeakOnError(r, response) ==
    /\ pc' = [ pc EXCEPT ![r] = "done" ]
    /\ resp' = [ resp EXCEPT ![r] = response ]
    /\ IF response[1].kind = "detail" THEN UNCHANGED conn ELSE Close(r)
    /\ UNCHANGED << args, opened, now >>

\* The handler closes its connection and returns or raises.
Finish(r, response) ==
    /\ pc' = [ pc EXCEPT ![r] = "done" ]
    /\ resp' = [ resp EXCEPT ![r] = response ]
    /\ Close(r)
    /\ UNCHANGED << args, opened, now >>

\* ------------------------------------------------------------- get_songs
GetSongsBegin(r) ==
    Begin(r, [ NoArgs EXCEPT !.op = "get_songs" ], "get_songs_select")

GetSongsSelect(r) ==
    /\ At(r, "get_songs_select")
    /\ Finish(r, Response(200, "songs", OrderByTitle(songs)))
    /\ UNCHANGED << songs, seq, local >>

\* -------------------------------------------------------------- get_song
GetSongBegin(r) ==
    \E id \in Ids :
        Begin(r, [ NoArgs EXCEPT !.op = "get_song", !.song_id = id ],
              "get_song_select")

GetSongSelect(r) ==
    /\ At(r, "get_song_select")
    /\ LET song == SelectById(songs, args[r].song_id)
       IN  IF song = None
           THEN Finish(r, HTTPException(404))
           ELSE Finish(r, Response(200, "song", song))
    /\ UNCHANGED << songs, seq, local >>

\* ----------------------------------------------------------- create_song
\* Rows in flight count against MaxId, which caps the ids the model hands out.
CreateSongBegin(r) ==
    /\ seq + Cardinality({ q \in Req : pc[q] = "create_song_insert" }) < MaxId
    /\ \E title \in Titles, lyrics \in Opt(Lyrics) :
           Begin(r, [ NoArgs EXCEPT !.op = "create_song",
                                    !.title = Some(title), !.lyrics = lyrics ],
                 "create_song_insert")

CreateSongInsert(r) ==
    /\ At(r, "create_song_insert")
    /\ LET song == SongCreate(args[r].title, args[r].lyrics)
           ins == InsertSong(songs, seq, song.title, song.lyrics, now)
       IN  /\ songs' = ins.songs
           /\ seq' = ins.seq
           /\ IF ins.ok
              THEN /\ local' = [ local EXCEPT ![r] = ins.lastrowid ]
                   /\ pc' = [ pc EXCEPT ![r] = "create_song_select" ]
                   /\ UNCHANGED << now, args, conn, opened, resp >>
              ELSE /\ Finish(r, HTTPException(400))
                   /\ UNCHANGED local

CreateSongSelect(r) ==
    /\ At(r, "create_song_select")
    /\ Finish(r, DictResponse(SelectById(songs, local[r])))
    /\ UNCHANGED << songs, seq, local >>

\* ----------------------------------------------------------- update_song
UpdateSongBegin(r) ==
    \E id \in Ids, title \in Opt(Titles), lyrics \in Opt(Lyrics) :
        Begin(r, [ op |-> "update_song", song_id |-> id,
                   title |-> title, lyrics |-> lyrics ],
              "update_song_check")

\* The existence check; with no field supplied the handler returns the row
\* it has just read.
UpdateSongCheck(r) ==
    /\ At(r, "update_song_check")
    /\ LET existing_song == SelectById(songs, args[r].song_id)
       IN  IF existing_song = None
           THEN Finish(r, HTTPException(404))
           ELSE IF UpdateFields(args[r].title, args[r].lyrics) = << >>
           THEN Finish(r, Response(200, "song", existing_song))
           ELSE /\ pc' = [ pc EXCEPT ![r] = "update_song_update" ]
                /\ UNCHANGED << now, args, conn, opened, resp >>
    /\ UNCHANGED << songs, seq, local >>

UpdateSongUpdate(r) ==
    /\ At(r, "update_song_update")
    /\ LET upd == UpdateSong(songs, args[r].song_id,
                             UpdateFields(args[r].title, args[r].lyrics),
                             args[r].title, args[r].lyrics, now)
       IN  /\ songs' = upd.songs
           /\ IF upd.ok
              THEN /\ pc' = [ pc EXCEPT ![r] = "update_song_select" ]
                   /\ UNCHANGED << now, args, conn, opened, resp >>
              ELSE Finish(r, HTTPException(400))
    /\ UNCHANGED << seq, local >>

UpdateSongSelect(r) ==
    /\ At(r, "update_song_select")
    /\ Finish(r, DictResponse(SelectById(songs, args[r].song_id)))
    /\ UNCHANGED << songs, seq, local >>

\* ----------------------------------------------------------- delete_song
DeleteSongBegin(r) ==
    \E id \in Ids :
        Begin(r, [ NoArgs EXCEPT !.op = "delete_song", !.song_id = id ],
              "delete_song_check")

DeleteSongCheck(r) ==
    /\ At(r, "delete_song_check")
    /\ IF SelectById(songs, args[r].song_id) = None
       THEN Finish(r, HTTPException(404))
       ELSE /\ pc' = [ pc EXCEPT ![r] = "delete_song_delete" ]
            /\ UNCHANGED << now, args, conn, opened, resp >>
    /\ UNCHANGED << songs, seq, local >>

DeleteSongDelete(r) ==
    /\ At(r, "delete_song_delete")
    /\ songs' = DeleteSong(songs, args[r].song_id)
    /\ Finish(r, Response(200, "message", << >>))
    /\ UNCHANGED << seq, local >>

\* ------------------------------------------------------------ share_song
ShareSongBegin(r) ==
    \E id \in Ids :
        Begin(r, [ NoArgs EXCEPT !.op = "share_song", !.song_id = id ],
              "share_song_select")

ShareSongSelect(r) ==
    /\ At(r, "share_song_select")
    /\ LET song == SelectById(songs, args[r].song_id)
       IN  IF song = None
           THEN Finish(r, HTTPException(404))
           ELSE Finish(r, Response(200, "html", << SharePage(song[1]) >>))
    /\ UNCHANGED << songs, seq, local >>

\* ------------------------------------------------------------------ rest
\* The response has been sent; the worker is free for the next request.
Reply(r) ==
    /\ pc[r] = "done"
    /\ pc' = [ pc EXCEPT ![r] = "idle" ]
    /\ args' = [ args EXCEPT ![r] = NoArgs ]
    /\ local' = [ local EXCEPT ![r] = 0 ]
    /\ opened' = [ opened EXCEPT ![r] = 0 ]
    /\ resp' = [ resp EXCEPT ![r] = Pending ]
    /\ UNCHANGED << songs, seq, now, conn >>

\* A second passes.
Tick ==
    /\ now < MaxTime
    /\ NoReplyDue
    /\ now' = now + 1
    /\ UNCHANGED << songs, seq, pc, args, local, conn, opened, resp >>

Next ==
    \/ \E r \in Req : GetSongsBegin(r)
    \/ \E r \in Req : GetSongsSelect(r)
    \/ \E r \in Req : GetSongBegin(r)
    \/ \E r \in Req : GetSongSelect(r)
    \/ \E r \in Req : CreateSongBegin(r)
    \/ \E r \in Req : CreateSongInsert(r)
    \/ \E r \in Req : CreateSongSelect(r)
    \/ \E r \in Req : UpdateSongBegin(r)
    \/ \E r \in Req : UpdateSongCheck(r)
    \/ \E r \in Req : UpdateSongUpdate(r)
    \/ \E r \in Req : UpdateSongSelect(r)
    \/ \E r \in Req : DeleteSongBegin(r)
    \/ \E r \in Req : DeleteSongCheck(r)
    \/ \E r \in Req : DeleteSongDelete(r)
    \/ \E r \in Req : ShareSongBegin(r)
    \/ \E r \in Req : ShareSongSelect(r)
    \/ \E r \in Req : Reply(r)
    \/ Tick

Spec == Init /\ [][Next]_vars

TypeOK ==
    /\ seq \in 0..MaxId
    /\ now \in Times
    /\ \A row \in songs : row.id \in 1..seq
    /\ \A r \in Req : conn[r] \in 0..1

\* ---------------------------------------------------------------- claims

LiveIds(tbl) == { row.id : row \in tbl }
\* Request r executes the statement at `label` in this step.
Executes(r, label) == pc[r] = label /\ pc'[r] # label
\* Request r has finished a call of handler `op`.
Returned(r, op) == pc[r] = "done" /\ args[r].op = op
Status(r) == resp[r][1].status
Body(r) == resp[r][1].body

\* C1: in every reachable state no two rows of songs have the same title.
C1_UniqueTitles ==
    \A a, b \in songs : a.title = b.title => a = b

\* Two rows are live, and an update that asked for the other row's title has
\* been refused.
C1_Witness ==
    /\ Cardinality(songs) = 2
    /\ \E r \in Req : Returned(r, "update_song") /\ Status(r) = 400

\* C2: a create_song whose INSERT found the title free always answers 200
\* with the new row: its id, the title given, and the lyrics given or "".
C2_CreateUniqueAlwaysSucceeds ==
    \A r \in Req :
        Returned(r, "create_song") /\ local[r] # 0 =>
            /\ Status(r) = 200
            /\ Len(Body(r)) = 1
            /\ Body(r)[1].id = local[r]
            /\ Body(r)[1].title = args[r].title[1]
            /\ Body(r)[1].lyrics =
                   (IF args[r].lyrics = None THEN "" ELSE args[r].lyrics[1])

\* C3: a create_song whose title a live row holds answers 400 and leaves the
\* table (and the id sequence) as it was.
C3_DuplicateCreateRejected ==
    [][ \A r \in Req :
            ( /\ Executes(r, "create_song_insert")
              /\ \E row \in songs : row.title = args[r].title[1] )
            => /\ songs' = songs
               /\ seq' = seq
               /\ resp'[r] = HTTPException(400) ]_vars

C3_Witness ==
    \E r \in Req :
        /\ Returned(r, "create_song")
        /\ Status(r) = 400
        /\ \E row \in songs : row.title = args[r].title[1]

\* C4: an update_song of a live row whose new title a different live row
\* holds answers 400 and leaves the whole table as it was, new lyrics or not;
\* a new title no other row holds (the row's own included) is accepted.
C4_UpdateConflictLeavesRowUnmodified ==
    [][ \A r \in Req :
            ( /\ Executes(r, "update_song_update")
              /\ args[r].title # None
              /\ args[r].song_id \in LiveIds(songs) )
            => IF \E row \in songs : /\ row.id # args[r].song_id
                                     /\ row.title = args[r].title[1]
               THEN /\ songs' = songs
                    /\ resp'[r] = HTTPException(400)
               ELSE /\ pc'[r] = "update_song_select"
                    /\ \E row \in songs' : /\ row.id = args[r].song_id
                                           /\ row.title = args[r].title[1] ]_vars

\* A refused update that carried new lyrics as well; the row still has its
\* old lyrics.
C4_Witness ==
    \E r \in Req :
        /\ Returned(r, "update_song")
        /\ Status(r) = 400
        /\ args[r].lyrics # None
        /\ \E row \in songs : /\ row.id = args[r].song_id
                              /\ row.lyrics # args[r].lyrics[1]

\* C5: an update_song of a live row that supplies neither title nor lyrics
\* answers 200 with the row as stored and leaves the table as it was.
C5_NoFieldUpdateIsNoop ==
    [][ \A r \in Req :
            ( /\ Executes(r, "update_song_check")
              /\ args[r].title = None
              /\ args[r].lyrics = None
              /\ args[r].song_id \in LiveIds(songs) )
            => /\ songs' = songs
               /\ resp'[r] = Response(200, "song",
                                      SelectById(songs', args[r].song_id)) ]_vars

\* Such an update has returned at a time later than the row's updated_at.
C5_Witness ==
    \E r \in Req :
        /\ Returned(r, "update_song")
        /\ args[r].title = None
        /\ args[r].lyrics = None
        /\ Status(r) = 200
        /\ Body(r)[1].updated_at < now
        /\ Body(r)[1] \in songs

\* C6: delete_song of an id that is not live answers 404 and changes nothing;
\* of a live id it answers 200 and removes that row only; an id once used and
\* no longer live never comes back, and get_song of an id that is not live
\* answers 404.
C6_DeleteIsFinal ==
    [][ /\ \A r \in Req :
              ( /\ Executes(r, "delete_song_check")
                /\ args[r].song_id \notin LiveIds(songs) )
              => songs' = songs /\ resp'[r] = HTTPException(404)
        /\ \A r \in Req :
              ( /\ Executes(r, "delete_song_check")
                /\ args[r].song_id \in LiveIds(songs) )
              => songs' = songs /\ pc'[r] = "delete_song_delete"
        /\ \A r \in Req :
              Executes(r, "delete_song_delete")
              => /\ songs' = { row \in songs : row.id # args[r].song_id }
                 /\ resp'[r][1].status = 200
        /\ \A id \in 1..seq :
              id \notin LiveIds(songs) => id \notin LiveIds(songs')
        /\ \A r \in Req :
              ( /\ Executes(r, "get_song_select")
                /\ args[r].song_id \notin LiveIds(songs) )
              => resp'[r] = HTTPException(404) ]_vars

\* get_song has answered 404 for an id that was deleted, after a later row
\* was created.
C6_Witness ==
    \E r \in Req :
        /\ Returned(r, "get_song")
        /\ Status(r) = 404
        /\ args[r].song_id <= seq
        /\ \E row \in songs : row.id > args[r].song_id

\* C7: get_songs answers 200 with every live row exactly once, in strictly
\* ascending order of title.
C7_ListSortedByTitle ==
    \A r \in Req :
        Returned(r, "get_songs") =>
            LET b == Body(r)
            IN  /\ Status(r) = 200
                /\ Len(b) = Cardinality(songs)
                /\ { b[i] : i \in 1..Len(b) } = songs
                /\ \A i, j \in 1..Len(b) :
                       i < j => TitleLess(b[i].title, b[j].title)

\* A list of two rows whose title order is the reverse of their id order.
C7_Witness ==
    \E r \in Req :
        /\ Returned(r, "get_songs")
        /\ Len(Body(r)) = 2
        /\ Body(r)[1].id > Body(r)[2].id

\* C8: no step changes the created_at of a row (rows are told apart by id);
\* the UPDATE of update_song changes, in the row with the given id only, the
\* fields supplied and updated_at, which becomes the current time.
C8_UpdateFrame ==
    [][ /\ \A old \in songs, new \in songs' :
              old.id = new.id => new.created_at = old.created_at
        /\ \A r \in Req :
              ( /\ Executes(r, "update_song_update")
                /\ pc'[r] = "update_song_select" )
              => LET hit == { row \in songs : row.id = args[r].song_id }
                     Upd(row) ==
                         [ id |-> row.id,
                           title |-> IF args[r].title # None
                                     THEN args[r].title[1] ELSE row.title,
                           lyrics |-> IF args[r].lyrics # None
                                      THEN args[r].lyrics[1] ELSE row.lyrics,
                           created_at |-> row.created_at,
                           updated_at |-> now ]
                 IN  songs' = (songs \ hit) \cup { Upd(row) : row \in hit } ]_vars

\* An UPDATE that supplied the lyrics the row already had has run at a time
\* later than the row's creation: only updated_at moved.
C8_Witness ==
    \E r \in Req :
        /\ pc[r] = "update_song_select"
        /\ args[r].title = None
        /\ \E row \in songs : /\ row.id = args[r].song_id
                              /\ row.created_at < now
                              /\ row.updated_at = now
                              /\ \E other \in songs : other.id # row.id

\* C9: every update_song ends with 200 and the row, 404 or 400.
C9_UpdateOutcomes ==
    \A r \in Req :
        Returned(r, "update_song") =>
            \/ Status(r) = 200 /\ Len(Body(r)) = 1
            \/ Status(r) = 404
            \/ Status(r) = 400

\* C10: a handler opens one connection when it is entered, holds exactly that
\* one while it runs, and has closed it when it returns or raises.
C10_ConnectionsReleased ==
    \A r \in Req :
        /\ pc[r] = "idle" => conn[r] = 0 /\ opened[r] = 0
        /\ pc[r] = "done" => conn[r] = 0 /\ opened[r] = 1
        /\ pc[r] \notin { "idle", "done" } => conn[r] = 1 /\ opened[r] = 1

\* A handler has left through its Conflict path and no connection is open.
C10_Witness ==
    /\ \E r \in Req : pc[r] = "done" /\ Status(r) = 400
    /\ \A r \in Req : conn[r] = 0

====
